---- MODULE Spec2Model ----
(***************************************************************************)
(* A model of face_track.py: the registry of visible faces and the         *)
(* look-at / gaze-at / glance-at scheduling of class FaceTrack.            *)
(*                                                                         *)
(* Time is counted in units of 0.1 s.  Coordinates are integers.  The tf   *)
(* listener and the keys of the blackboard that other modules write        *)
(* ("current_face_target", the face-study flags) are the environment: a    *)
(* handler receives what tf answers as an input.                           *)
(***************************************************************************)
EXTENDS Integers, Sequences, FiniteSets, TLC

VARIABLES visible_faces, look_at, gaze_at, glance_at, first_glance,
          glance_howlong, last_lookat, blackboard, clock, pub, log, probe

vars == <<visible_faces, look_at, gaze_at, glance_at, first_glance,
          glance_howlong, last_lookat, blackboard, clock, pub, log, probe>>

(***************************************************************************)
(* Bounds of the model.                                                    *)
(***************************************************************************)
\* pi_vision numbers the faces it sees 1..MaxFace
MaxFace == 1
\* time.time() at construction, and the last instant the model follows
StartTime == 3
MaxClock == 2
\* the longest glance a caller asks for
MaxHowlong == 1
\* how far to the side (y) a face can stand when tf answers during a tick
FarY == 5
\* the coordinates of the targets handed to glance_or_look_at directly
MaxXY == 5
MaxZ == 2
\* configuration the blackboard holds for this module
MaxGlanceDistance == 2
ZPitchEyes == 1
ZPitchNose == 1
ZPitchMouth == 2
YPitchLeftEar == 3
YPitchRightEar == 4

(***************************************************************************)
(* Program constants.                                                      *)
(***************************************************************************)
\* self.LOOKAT_INTERVAL = 0.1, in units of 0.1 s
LOOKAT_INTERVAL == 1
\* loc.x < 0.05, in units of 0.01 m
X_THRESHOLD == 5
\* the value "" that new_face is reset to (no face id is negative)
EMPTY == -1

\* the ids a caller of the public API passes: 0 ("no face"), the ids of
\* pi_vision, and one id that pi_vision never reports
FaceIds == 0 .. (MaxFace + 1)
\* the ids pi_vision gives to faces
SeenIds == 1 .. MaxFace

(***************************************************************************)
(* Python list helpers.                                                    *)
(***************************************************************************)
\* x in lst
In(x, lst) == \E i \in 1 .. Len(lst) : lst[i] = x

\* lst.remove(x): deletes the first occurrence
ListRemove(lst, x) ==
    LET i == CHOOSE j \in 1 .. Len(lst) :
                 lst[j] = x /\ \A k \in 1 .. (j - 1) : lst[k] # x
    IN  SubSeq(lst, 1, i - 1) \o SubSeq(lst, i + 1, Len(lst))

(***************************************************************************)
(* The state of a FaceTrack object and its blackboard, as one record, so   *)
(* that a method is an operator from state to state (probe, the arguments  *)
(* of a direct call of glance_or_look_at, is not part of it).  pub is what *)
(* running handler has published so far, log what its tick has printed;    *)
(* exc is the exception in flight ("none" when there is none).             *)
(***************************************************************************)
Self ==
    [ visible_faces  |-> visible_faces,
      look_at        |-> look_at,
      gaze_at        |-> gaze_at,
      glance_at      |-> glance_at,
      first_glance   |-> first_glance,
      glance_howlong |-> glance_howlong,
      last_lookat    |-> last_lookat,
      blackboard     |-> blackboard,
      pub            |-> << >>,
      log            |-> << >>,
      exc            |-> "none" ]

\* rospy publish on look_pub ("look") or gaze_pub ("gaze")
Publish(s, chan, trg) ==
    [s EXCEPT !.pub = Append(@, [chan |-> chan, x |-> trg.x, y |-> trg.y,
                                 z |-> trg.z, face |-> trg.face])]

\* print(...) during a tick (the prints that trace every API call and list
\* the visible faces are left out)
Say(s, what) == [s EXCEPT !.log = Append(@, what)]

\* Target() with x = 1.0, y = 0.0, z = 0.0; it belongs to no face
NeutralTarget == [x |-> 1, y |-> 0, z |-> 0, face |-> 0]

(***************************************************************************)
(* Public API.                                                             *)
(***************************************************************************)
\* A faulty variant of gaze_at_face: returning to the neutral position also
\* drops the glance.
gaze_at_face_DropsGlance(s, faceid) ==
    LET s2 == IF 0 = faceid
              THEN [Publish(s, "gaze", NeutralTarget) EXCEPT !.glance_at = 0]
              ELSE s
        s3 == [s2 EXCEPT !.last_lookat = 0]
    IN  IF ~In(faceid, s3.visible_faces)
        THEN [s3 EXCEPT !.gaze_at = 0]
        ELSE [s3 EXCEPT !.gaze_at = faceid]

gaze_at_face(s, faceid) ==
    LET s2 == IF 0 = faceid THEN Publish(s, "gaze", NeutralTarget) ELSE s
        s3 == [s2 EXCEPT !.last_lookat = 0]
    IN  IF ~In(faceid, s3.visible_faces)
        THEN [s3 EXCEPT !.gaze_at = 0]
        ELSE [s3 EXCEPT !.gaze_at = faceid]

\* A faulty variant of look_at_face: the test that the face is visible is
\* left out.
look_at_face_Unchecked(s, faceid) ==
    LET s2 == IF 0 = faceid THEN Publish(s, "look", NeutralTarget) ELSE s
        s3 == [s2 EXCEPT !.last_lookat = 0]
    IN  [s3 EXCEPT !.look_at = faceid]

\* A faulty variant of look_at_face: the rate limiter is not reset
\* (self.last_lookat = 0 is left out).
look_at_face_NoReset(s, faceid) ==
    LET s2 == IF 0 = faceid THEN Publish(s, "look", NeutralTarget) ELSE s
    IN  IF ~In(faceid, s2.visible_faces)
        THEN [s2 EXCEPT !.look_at = 0]
        ELSE [s2 EXCEPT !.look_at = faceid]

look_at_face(s, faceid) ==
    LET s2 == IF 0 = faceid THEN Publish(s, "look", NeutralTarget) ELSE s
        s3 == [s2 EXCEPT !.last_lookat = 0]
    IN  IF ~In(faceid, s3.visible_faces)
        THEN [s3 EXCEPT !.look_at = 0]
        ELSE [s3 EXCEPT !.look_at = faceid]

glance_at_face(s, faceid, howlong) ==
    [s EXCEPT !.glance_at = faceid,
              !.glance_howlong = howlong,
              !.first_glance = -1]

study_face(s, faceid, howlong) ==
    [s EXCEPT !.glance_at = faceid,
              !.glance_howlong = howlong,
              !.first_glance = -1]

(***************************************************************************)
(* The registry.                                                           *)
(***************************************************************************)
add_face_to_bb(s, faceid) ==
    IF In(faceid, s.blackboard.background_face_targets)
    THEN s
    ELSE [s EXCEPT !.blackboard.is_interruption = TRUE,
                   !.blackboard.new_face = faceid,
                   !.blackboard.background_face_targets = Append(@, faceid)]

\* A faulty variant of remove_face_from_bb: new_face is not reset when the
\* face that is lost is the one announced as new.
remove_face_from_bb_KeepNew(s, fid) ==
    IF ~In(fid, s.blackboard.background_face_targets)
    THEN s
    ELSE [s EXCEPT !.blackboard.is_interruption = TRUE,
                   !.blackboard.lost_face = fid,
                   !.blackboard.background_face_targets = ListRemove(@, fid)]

remove_face_from_bb(s, fid) ==
    IF ~In(fid, s.blackboard.background_face_targets)
    THEN s
    ELSE LET s1 == [s EXCEPT !.blackboard.is_interruption = TRUE,
                             !.blackboard.lost_face = fid,
                             !.blackboard.background_face_targets =
                                   ListRemove(@, fid)]
         IN  IF s1.blackboard.new_face = fid
             THEN [s1 EXCEPT !.blackboard.new_face = EMPTY]
             ELSE s1

\* A faulty variant of add_face: the test "faceid in self.visible_faces" is
\* left out.
add_face_Unchecked(s, faceid) ==
    add_face_to_bb([s EXCEPT !.visible_faces = Append(@, faceid)], faceid)

add_face(s, faceid) ==
    IF In(faceid, s.visible_faces)
    THEN s
    ELSE add_face_to_bb([s EXCEPT !.visible_faces = Append(@, faceid)],
                        faceid)

\* A faulty variant of remove_face: the face is taken off the blackboard but
\* stays in visible_faces.
remove_face_BlackboardOnly(s, faceid) ==
    remove_face_from_bb(s, faceid)

remove_face(s, faceid) ==
    LET s1 == remove_face_from_bb(s, faceid)
    IN  IF In(faceid, s1.visible_faces)
        THEN [s1 EXCEPT !.visible_faces = ListRemove(@, faceid)]
        ELSE s1

(***************************************************************************)
(* Target resolution.  a is what                                           *)
(* tf_listener.lookupTransform("blender", "Face<faceid>", Time(0)) answers *)
(* now: a translation, or an exception ("LookupException", or "Exception"  *)
(* for any other one).  A tick asks tf about at most two frames: the one   *)
(* of the current face target (answer tf.cur) and the one of the face it   *)
(* acts on (answer tf.trg).                                                *)
(***************************************************************************)
face_target(s, a, faceid) ==
    IF a.exc # "none"
    THEN [exc |-> a.exc, x |-> 0, y |-> 0, z |-> 0, face |-> faceid]
    ELSE [exc |-> "none", x |-> a.x, y |-> a.y,
          z |-> a.z + s.blackboard.z_pitch_eyes, face |-> faceid]

\* math.sqrt(d2) / z > m, for integers d2 >= 0, z # 0 and m
SqrtOverExceeds(d2, z, m) ==
    IF z > 0
    THEN (m * z < 0) \/ (d2 > (m * z) * (m * z))
    ELSE (m * z > 0) /\ (d2 < (m * z) * (m * z))

\* A faulty variant of StudyOffset: four independent "if" in place of the
\* if / elif chain, so that the offset of every set flag is added.
StudyOffset_Every(bb, gaze_trg) ==
    [gaze_trg EXCEPT
        !.z = @ + (IF bb.face_study_nose THEN bb.face_study_z_pitch_nose
                   ELSE 0)
                + (IF bb.face_study_mouth THEN bb.face_study_z_pitch_mouth
                   ELSE 0),
        !.y = @ + (IF bb.face_study_left_ear
                   THEN bb.face_study_y_pitch_left_ear ELSE 0)
                + (IF bb.face_study_right_ear
                   THEN bb.face_study_y_pitch_right_ear ELSE 0)]

\* the face-study saccade: the if / elif chain on the four flags
StudyOffset(bb, gaze_trg) ==
    IF bb.face_study_nose
    THEN [gaze_trg EXCEPT !.z = @ + bb.face_study_z_pitch_nose]
    ELSE IF bb.face_study_mouth
    THEN [gaze_trg EXCEPT !.z = @ + bb.face_study_z_pitch_mouth]
    ELSE IF bb.face_study_left_ear
    THEN [gaze_trg EXCEPT !.y = @ + bb.face_study_y_pitch_left_ear]
    ELSE IF bb.face_study_right_ear
    THEN [gaze_trg EXCEPT !.y = @ + bb.face_study_y_pitch_right_ear]
    ELSE gaze_trg

\* A faulty variant of GlanceDepth: the guard against division by zero is
\* left out.
GlanceDepth_NoGuard(current_trg, gaze_trg) ==
    current_trg.z - gaze_trg.z

\* z = current_trg.z - gaze_trg.z, with the guard against division by zero
GlanceDepth(current_trg, gaze_trg) ==
    LET z == current_trg.z - gaze_trg.z
    IN  IF z = 0 THEN 1 ELSE z

glance_or_look_at(s, current_trg, gaze_trg) ==
    LET z  == GlanceDepth(current_trg, gaze_trg)
        dx == current_trg.x - gaze_trg.x
        dy == current_trg.y - gaze_trg.y
    IN  IF z = 0
        THEN [s EXCEPT !.exc = "ZeroDivisionError"]
        ELSE IF SqrtOverExceeds(dx * dx + dy * dy, z,
                                s.blackboard.max_glance_distance)
        THEN Publish(Say(s, "Reached max_glance_distance"), "look", gaze_trg)
        ELSE LET s1 == Publish(s, "gaze", StudyOffset(s.blackboard, gaze_trg))
             IN  [s1 EXCEPT !.blackboard.face_study_nose = FALSE,
                            !.blackboard.face_study_mouth = FALSE,
                            !.blackboard.face_study_left_ear = FALSE,
                            !.blackboard.face_study_right_ear = FALSE]

(***************************************************************************)
(* The body of a try block: the first statement that raises decides the    *)
(* exception; current_trg is resolved before the target.                   *)
(***************************************************************************)
ResolveAndDecide(s, tf, faceid) ==
    LET current_trg == face_target(s, tf.cur,
                                   s.blackboard.current_face_target)
        gaze_trg    == face_target(s, tf.trg, faceid)
    IN  IF current_trg.exc # "none" THEN [s EXCEPT !.exc = current_trg.exc]
        ELSE IF gaze_trg.exc # "none" THEN [s EXCEPT !.exc = gaze_trg.exc]
        ELSE glance_or_look_at(s, current_trg, gaze_trg)

\* A faulty variant of GlanceBranch: the deadline test is "<=" in place of
\* "<", so that the tick at the deadline still glances.
GlanceBranch_Late(s, now, tf) ==
    LET s1 == IF s.first_glance < 0 THEN [s EXCEPT !.first_glance = now]
              ELSE s
    IN  IF now - s1.first_glance <= s1.glance_howlong
        THEN LET s2 == ResolveAndDecide(s1, tf, s1.glance_at)
             IN  IF s2.exc # "none"
                 THEN [Say(s2, "Error: no face to glance at!")
                          EXCEPT !.glance_at = 0, !.first_glance = -1,
                                 !.exc = "none"]
                 ELSE s2
        ELSE [s1 EXCEPT !.glance_at = 0, !.first_glance = -1]

\* the glance branch, lines 237-255
GlanceBranch(s, now, tf) ==
    LET s1 == IF s.first_glance < 0 THEN [s EXCEPT !.first_glance = now]
              ELSE s
    IN  IF now - s1.first_glance < s1.glance_howlong
        THEN LET s2 == ResolveAndDecide(s1, tf, s1.glance_at)
             IN  IF s2.exc # "none"
                 THEN [Say(s2, "Error: no face to glance at!")
                          EXCEPT !.glance_at = 0, !.first_glance = -1,
                                 !.exc = "none"]
                 ELSE s2
        ELSE [s1 EXCEPT !.glance_at = 0, !.first_glance = -1]

\* A faulty variant of GazeBranch: the handler of the other exceptions does
\* what the handler of tf.LookupException does (it evicts the face it gazes
\* at and calls look_at_face(0)).
GazeBranch_OneHandler(s, tf) ==
    LET s1 == IF ~In(s.gaze_at, s.visible_faces)
              THEN [s EXCEPT !.exc = "Exception"]
              ELSE ResolveAndDecide(s, tf, s.gaze_at)
    IN  IF s1.exc # "none"
        THEN [st  |-> look_at_face(
                          remove_face(
                              Say([s1 EXCEPT !.exc = "none"],
                                  "Error: no gaze-at target"),
                              s1.gaze_at),
                          0),
              ret |-> TRUE]
        ELSE [st |-> s1, ret |-> FALSE]

\* the gaze branch, lines 264-281; ret tells whether the method returned
GazeBranch(s, tf) ==
    LET s1 == IF ~In(s.gaze_at, s.visible_faces)
              THEN [s EXCEPT !.exc = "Exception"]
              ELSE ResolveAndDecide(s, tf, s.gaze_at)
    IN  IF s1.exc = "LookupException"
        THEN [st  |-> look_at_face(
                          remove_face(
                              Say([s1 EXCEPT !.exc = "none"],
                                  "Warning: TF has forgotten about face id"),
                              s1.look_at),
                          0),
              ret |-> TRUE]
        ELSE IF s1.exc # "none"
        THEN [st  |-> gaze_at_face(
                          Say([s1 EXCEPT !.exc = "none"],
                              "Error: no gaze-at target"),
                          0),
              ret |-> TRUE]
        ELSE [st |-> s1, ret |-> FALSE]

\* A faulty variant of LookBranch: the hand-over to eye tracking after the
\* head turn (gaze_at = look_at; look_at = -1) is left out.
LookBranch_NoHandOver(s, tf) ==
    LET s0  == Say(s, "Look at id")
        trg == face_target(s0, tf.trg, s0.look_at)
        s1  == IF ~In(s0.look_at, s0.visible_faces)
               THEN [s0 EXCEPT !.exc = "Exception"]
               ELSE IF trg.exc # "none" THEN [s0 EXCEPT !.exc = trg.exc]
               ELSE Publish(s0, "look", trg)
    IN  IF s1.exc = "LookupException"
        THEN look_at_face(
                 remove_face(
                     Say([s1 EXCEPT !.exc = "none"],
                         "Warning: TF has forgotten about face id"),
                     s1.look_at),
                 0)
        ELSE IF s1.exc # "none"
        THEN look_at_face(
                 Say([s1 EXCEPT !.exc = "none"], "Error: no look-at target"),
                 0)
        ELSE s1

\* the look branch, lines 283-304
LookBranch(s, tf) ==
    LET s0  == Say(s, "Look at id")
        trg == face_target(s0, tf.trg, s0.look_at)
        s1  == IF ~In(s0.look_at, s0.visible_faces)
               THEN [s0 EXCEPT !.exc = "Exception"]
               ELSE IF trg.exc # "none" THEN [s0 EXCEPT !.exc = trg.exc]
               ELSE Publish(s0, "look", trg)
    IN  IF s1.exc = "LookupException"
        THEN look_at_face(
                 remove_face(
                     Say([s1 EXCEPT !.exc = "none"],
                         "Warning: TF has forgotten about face id"),
                     s1.look_at),
                 0)
        ELSE IF s1.exc # "none"
        THEN look_at_face(
                 Say([s1 EXCEPT !.exc = "none"], "Error: no look-at target"),
                 0)
        ELSE [s1 EXCEPT !.gaze_at = s1.look_at, !.look_at = -1]

\* the elif branch, lines 258-304: the rate limiter, then gaze, then look
NormalScheduling(s, now, tf) ==
    IF now - s.last_lookat > LOOKAT_INTERVAL
    THEN LET s1 == [s EXCEPT !.last_lookat = now]
             g  == IF 0 < s1.gaze_at /\ s1.look_at <= 0
                   THEN GazeBranch(s1, tf)
                   ELSE [st |-> s1, ret |-> FALSE]
         IN  IF g.ret THEN g.st
             ELSE IF 0 < g.st.look_at THEN LookBranch(g.st, tf)
             ELSE g.st
    ELSE s

\* A faulty variant of do_look_at_actions: "if" in place of "elif", so that
\* normal scheduling also runs in a tick that glances.
do_look_at_actions_NoPreempt(s, now, tf) ==
    NormalScheduling(IF 0 < s.glance_at THEN GlanceBranch(s, now, tf) ELSE s,
                     now, tf)

\* now is time.time()
do_look_at_actions(s, now, tf) ==
    IF 0 < s.glance_at
    THEN GlanceBranch(s, now, tf)
    ELSE NormalScheduling(s, now, tf)

(***************************************************************************)
(* pi_vision callbacks.                                                    *)
(***************************************************************************)
face_event_cb(s, face_event, face_id) ==
    IF face_event = "new_face" THEN add_face(s, face_id)
    ELSE IF face_event = "lost_face" THEN remove_face(s, face_id)
    ELSE s

\* the loop over data.faces; a face is [id, x], x in units of 0.01 m
RECURSIVE AddFaces(_, _)
AddFaces(s, faces) ==
    IF faces = << >> THEN s
    ELSE LET face == Head(faces)
         IN  IF face.x < X_THRESHOLD
             THEN AddFaces(s, Tail(faces))
             ELSE AddFaces(add_face(s, face.id), Tail(faces))

\* A faulty variant of face_loc_cb: the tick runs before the batch is
\* registered.
face_loc_cb_TickFirst(s, faces, now, tf) ==
    AddFaces(do_look_at_actions(s, now, tf), faces)

face_loc_cb(s, faces, now, tf) ==
    do_look_at_actions(AddFaces(s, faces), now, tf)

(***************************************************************************)
(* The state machine.                                                      *)
(***************************************************************************)
\* the blackboard general_behavior hands to FaceTrack(owyl_bboard)
InitBlackboard ==
    [ background_face_targets      |-> << >>,
      new_face                     |-> EMPTY,
      lost_face                    |-> EMPTY,
      is_interruption              |-> FALSE,
      current_face_target          |-> 0,
      max_glance_distance          |-> MaxGlanceDistance,
      z_pitch_eyes                 |-> ZPitchEyes,
      face_study_nose              |-> FALSE,
      face_study_mouth             |-> FALSE,
      face_study_left_ear          |-> FALSE,
      face_study_right_ear         |-> FALSE,
      face_study_z_pitch_nose      |-> ZPitchNose,
      face_study_z_pitch_mouth     |-> ZPitchMouth,
      face_study_y_pitch_left_ear  |-> YPitchLeftEar,
      face_study_y_pitch_right_ear |-> YPitchRightEar ]

\* no direct call of glance_or_look_at is under way
NoProbe ==
    [current_trg |-> NeutralTarget, gaze_trg |-> NeutralTarget,
     done |-> TRUE, exc |-> "none"]

\* FaceTrack.__init__
Init ==
    /\ visible_faces = << >>
    /\ look_at = 0
    /\ gaze_at = 0
    /\ glance_at = 0
    /\ first_glance = -1
    /\ glance_howlong = -1
    /\ last_lookat = 0
    /\ blackboard = InitBlackboard
    /\ clock = StartTime
    /\ pub = << >>
    /\ log = << >>
    /\ probe = NoProbe

\* the state a handler leaves behind
Becomes(s) ==
    /\ visible_faces' = s.visible_faces
    /\ look_at' = s.look_at
    /\ gaze_at' = s.gaze_at
    /\ glance_at' = s.glance_at
    /\ first_glance' = s.first_glance
    /\ glance_howlong' = s.glance_howlong
    /\ last_lookat' = s.last_lookat
    /\ blackboard' = s.blackboard
    /\ pub' = s.pub
    /\ log' = s.log

\* what tf can answer for one frame during a tick
TfAnswers ==
    { [exc |-> e, x |-> 0, y |-> 0, z |-> 0] :
          e \in {"LookupException", "Exception"} }
    \cup { [exc |-> "none", x |-> 1, y |-> p[1], z |-> p[2]] :
               p \in {<<0, 0>>, <<FarY, 1>>} }

\* tf during one tick
Tfs == [cur : TfAnswers, trg : TfAnswers]

\* The answers of tf that a tick in state s at time now can tell apart: it
\* asks about the current face target only in the glance and gaze branches,
\* and about nothing when it resolves no face.
NoAnswer == [exc |-> "Exception", x |-> 0, y |-> 0, z |-> 0]
GlanceRuns(s, now) ==
    /\ 0 < s.glance_at
    /\ now - (IF s.first_glance < 0 THEN now ELSE s.first_glance)
           < s.glance_howlong
GateOpen(s, now) ==
    ~(0 < s.glance_at) /\ now - s.last_lookat > LOOKAT_INTERVAL
GazeRuns(s, now) ==
    GateOpen(s, now) /\ 0 < s.gaze_at /\ s.look_at <= 0
LookRuns(s, now) ==
    GateOpen(s, now) /\ 0 < s.look_at
TfsAsked(s, now) ==
    IF GlanceRuns(s, now) \/ (GazeRuns(s, now) /\ In(s.gaze_at, s.visible_faces))
    THEN Tfs
    ELSE IF LookRuns(s, now) /\ In(s.look_at, s.visible_faces)
    THEN [cur : {NoAnswer}, trg : TfAnswers]
    ELSE [cur : {NoAnswer}, trg : {NoAnswer}]

\* the batches of face locations pi_vision sends
Batches ==
    { << >> } \cup
    { <<[id |-> i, x |-> x]>> : i \in SeenIds,
                                x \in {X_THRESHOLD - 1, X_THRESHOLD} }

GazeAtFace ==
    \E faceid \in FaceIds :
        /\ Becomes(gaze_at_face(Self, faceid))
        /\ UNCHANGED <<clock, probe>>

LookAtFace ==
    \E faceid \in FaceIds :
        /\ Becomes(look_at_face(Self, faceid))
        /\ UNCHANGED <<clock, probe>>

GlanceAtFace ==
    \E faceid \in FaceIds, howlong \in 0 .. MaxHowlong :
        /\ Becomes(glance_at_face(Self, faceid, howlong))
        /\ UNCHANGED <<clock, probe>>

StudyFace ==
    \E faceid \in FaceIds, howlong \in 0 .. MaxHowlong :
        /\ Becomes(study_face(Self, faceid, howlong))
        /\ UNCHANGED <<clock, probe>>

FaceEventCb ==
    \E face_event \in {"new_face", "lost_face"}, face_id \in SeenIds :
        /\ Becomes(face_event_cb(Self, face_event, face_id))
        /\ UNCHANGED <<clock, probe>>

FaceLocCb ==
    \E faces \in Batches, now \in clock .. (StartTime + MaxClock) :
      \E tf \in TfsAsked(AddFaces(Self, faces), now) :
        /\ Becomes(face_loc_cb(Self, faces, now, tf))
        /\ clock' = now
        /\ UNCHANGED probe

Next ==
    \/ GazeAtFace
    \/ LookAtFace
    \/ GlanceAtFace
    \/ StudyFace
    \/ FaceEventCb
    \/ FaceLocCb

Spec == Init /\ [][Next]_vars

(***************************************************************************)
(* glance_or_look_at on its own: the arguments of one call and the flags   *)
(* and threshold on the blackboard are drawn at the start, and the call is *)
(* the only step.                                                          *)
(***************************************************************************)
CurrentTargets ==
    { [x |-> 0, y |-> y, z |-> z, face |-> 0] :
          y \in 0 .. 1, z \in 0 .. MaxZ }

GazeTargets ==
    { [x |-> x, y |-> y, z |-> z, face |-> 1] :
          x \in 0 .. MaxXY, y \in 0 .. MaxXY, z \in 0 .. MaxZ }

InitDecision ==
    /\ visible_faces = << >>
    /\ look_at = 0
    /\ gaze_at = 0
    /\ glance_at = 0
    /\ first_glance = -1
    /\ glance_howlong = -1
    /\ last_lookat = 0
    /\ \E m \in 0 .. MaxGlanceDistance, nose, mouth, left, right \in BOOLEAN :
           blackboard = [InitBlackboard EXCEPT
                             !.max_glance_distance = m,
                             !.face_study_nose = nose,
                             !.face_study_mouth = mouth,
                             !.face_study_left_ear = left,
                             !.face_study_right_ear = right]
    /\ clock = StartTime
    /\ pub = << >>
    /\ log = << >>
    /\ \E c \in CurrentTargets, g \in GazeTargets :
           probe = [current_trg |-> c, gaze_trg |-> g,
                    done |-> FALSE, exc |-> "none"]

Decide ==
    /\ ~probe.done
    /\ LET s == glance_or_look_at(Self, probe.current_trg, probe.gaze_trg)
       IN  /\ Becomes(s)
           /\ probe' = [probe EXCEPT !.done = TRUE, !.exc = s.exc]
    /\ UNCHANGED clock

NextDecision == Decide

SpecDecision == InitDecision /\ [][NextDecision]_vars

(***************************************************************************)
(* The perception feed on its own, with arbitrary face ids: pi_vision's     *)
(* messages carry any id, 0 included, and no API call is made.             *)
(***************************************************************************)
\* the ids a message of pi_vision can carry
AnyIds == FaceIds

\* the batches of face locations, of any ids
AnyBatches ==
    { << >> } \cup
    { <<[id |-> i, x |-> x]>> : i \in AnyIds,
                                x \in {X_THRESHOLD - 1, X_THRESHOLD} }

FaceEventAny ==
    \E face_event \in {"new_face", "lost_face"}, face_id \in AnyIds :
        /\ Becomes(face_event_cb(Self, face_event, face_id))
        /\ UNCHANGED <<clock, probe>>

FaceLocAny ==
    \E faces \in AnyBatches, now \in clock .. (StartTime + MaxClock) :
      \E tf \in TfsAsked(AddFaces(Self, faces), now) :
        /\ Becomes(face_loc_cb(Self, faces, now, tf))
        /\ clock' = now
        /\ UNCHANGED probe

NextPerception ==
    \/ FaceEventAny
    \/ FaceLocAny

SpecPerception == Init /\ [][NextPerception]_vars

(***************************************************************************)
(* Properties.  A property of the form "for every input, the handler run   *)
(* from this state ..." is an invariant of the reachable states: it runs   *)
(* the handler's operator on the state (Self) and on each input.           *)
(***************************************************************************)
\* the instants at which the next handler can read time.time()
Nows == clock .. (StartTime + MaxClock)

\* the message that publishing Target t of face f on chan leaves in pub
Msg(chan, a, zoff, f) ==
    [chan |-> chan, x |-> a.x, y |-> a.y, z |-> a.z + zoff, face |-> f]

\* C1: with no glance active and the gate open, a tick that finds a pending
\* look-at (look_at = id > 0, as an accepted look_at_face(id) leaves it) whose
\* face is visible and resolves, publishes that face's target (the tf
\* translation raised by z_pitch_eyes) on the look channel and nothing else,
\* and leaves gaze_at = id and look_at = -1; and an accepted look_at_face(id)
\* leaves look_at = id with the gate open at every later instant.
C1_LookThenTrack ==
    /\ \A faceid \in FaceIds \ {0} :
           In(faceid, visible_faces) =>
               LET s1 == look_at_face(Self, faceid)
               IN  /\ s1.look_at = faceid
                   /\ s1.pub = << >>
                   /\ \A now \in Nows :
                          ~(0 < glance_at) => LookRuns(s1, now)
    /\ \A faces \in Batches, now \in Nows :
           LET s0 == AddFaces(Self, faces)
           IN  (LookRuns(s0, now) /\ In(s0.look_at, s0.visible_faces))
               => \A tf \in Tfs :
                      LET s2 == face_loc_cb(Self, faces, now, tf)
                      IN  tf.trg.exc = "none"
                          => /\ s2.pub = << Msg("look", tf.trg,
                                               blackboard.z_pitch_eyes,
                                               look_at) >>
                             /\ s2.gaze_at = look_at
                             /\ s2.look_at = -1

\* C1's case: the tick after look_at_face(1) has turned the head to face 1
C1_Witness ==
    /\ log = << "Look at id" >>
    /\ Len(pub) = 1 /\ pub[1].chan = "look" /\ pub[1].face = 1
    /\ gaze_at = 1
    /\ look_at = -1

\* C2: once the head has turned to face id (look_at = -1, gaze_at = id), a
\* later tick that is not that head turn and runs with no glance active
\* publishes nothing on the look channel for face id.
C2_HeadTurnOnce ==
    \A id \in SeenIds :
        (/\ look_at = -1
         /\ gaze_at = id
         /\ ~(0 < glance_at)
         /\ ~In("Look at id", log))
        => \A i \in 1 .. Len(pub) :
               ~(pub[i].chan = "look" /\ pub[i].face = id)

\* C3: while a glance is active (glance_at > 0 and the deadline not elapsed),
\* whatever look_at, gaze_at and last_lookat are, a tick publishes at most one
\* message, and it is the glance target's: the tf translation of face
\* glance_at raised by z_pitch_eyes, as it is on the look channel, or with the
\* face-study offset on the gaze channel; look_at, gaze_at and last_lookat
\* are left alone.
C3_GlancePreempts ==
    \A faces \in Batches, now \in Nows :
        GlanceRuns(AddFaces(Self, faces), now)
        => \A tf \in Tfs :
               LET s2  == face_loc_cb(Self, faces, now, tf)
                   trg == face_target(Self, tf.trg, glance_at)
               IN  /\ Len(s2.pub) <= 1
                   /\ \A i \in 1 .. Len(s2.pub) :
                          /\ s2.pub[i].face = glance_at
                          /\ trg.exc = "none"
                          /\ \/ s2.pub[i] = Msg("look", trg, 0, glance_at)
                             \/ s2.pub[i] =
                                    Msg("gaze", StudyOffset(blackboard, trg),
                                        0, glance_at)
                   /\ s2.look_at = look_at
                   /\ s2.gaze_at = gaze_at
                   /\ s2.last_lookat = last_lookat

\* C3's case: a glancing tick has published the glance target while a look-at
\* and a gaze-at on another face were set and the rate limiter was open
C3_Witness ==
    /\ 0 < glance_at
    /\ 0 <= first_glance
    /\ 0 < look_at /\ look_at # glance_at
    /\ 0 < gaze_at /\ gaze_at # glance_at
    /\ last_lookat = 0
    /\ Len(pub) = 1 /\ pub[1].face = glance_at

\* the state in which the next handler starts: nothing published or printed
NextCall(s) == [s EXCEPT !.pub = << >>, !.log = << >>]

\* no message of pub is the target of face id
NothingFor(p, id) == \A i \in 1 .. Len(p) : p[i].face # id

C5_LookStaleEvicts ==
    \A faces \in Batches, now \in Nows :
        LET s0 == AddFaces(Self, faces)
        IN  (LookRuns(s0, now) /\ In(s0.look_at, s0.visible_faces))
            => \A tf \in Tfs :
                   LET s2 == face_loc_cb(Self, faces, now, tf)
                   IN  tf.trg.exc = "LookupException"
                       => /\ ~In(look_at, s2.visible_faces)
                          /\ s2.look_at = 0

\* C5's case: the look branch has met the stale history of face 1
C5_Witness ==
    /\ log = << "Look at id", "Warning: TF has forgotten about face id" >>
    /\ blackboard.lost_face = 1
    /\ ~In(1, visible_faces)
    /\ look_at = 0

\* C6: a tick that runs the gaze branch on a visible face g (gaze_at = g > 0,
\* look_at <= 0), resolves the current face target and gets
\* tf.LookupException for face g leaves g out of visible_faces.
C6_GazeStaleEvicts ==
    \A faces \in Batches, now \in Nows :
        LET s0 == AddFaces(Self, faces)
        IN  (GazeRuns(s0, now) /\ In(s0.gaze_at, s0.visible_faces))
            => \A tf \in Tfs :
                   (tf.cur.exc = "none" /\ tf.trg.exc = "LookupException")
                   => ~In(gaze_at,
                          face_loc_cb(Self, faces, now, tf).visible_faces)

\* what a failing tick prints
Diagnostics ==
    { "Error: no face to glance at!",
      "Warning: TF has forgotten about face id",
      "Error: no gaze-at target",
      "Error: no look-at target" }

\* the handler that ran last was a tick that hit a failure
TickFailed == \E i \in 1 .. Len(log) : log[i] \in Diagnostics

\* C7, as claimed: a tick that hits a failure in the glance, gaze or look
\* branch publishes nothing on either channel.
C7_FailedTickSilent == TickFailed => pub = << >>

\* C7, amended: a tick that hits a failure publishes no target of a face: a
\* failure in the glance branch publishes nothing; a failure in the gaze or
\* look branch publishes exactly one message, the neutral target (1, 0, 0)
\* that gaze_at_face(0) / look_at_face(0) send: on the gaze channel after any
\* failure of the gaze branch but the stale-history one, on the look channel
\* after a stale-history failure and after any failure of the look branch.
C7_FailedTickNeutral ==
    /\ In("Error: no face to glance at!", log) => pub = << >>
    /\ In("Error: no gaze-at target", log)
           => pub = << Msg("gaze", NeutralTarget, 0, 0) >>
    /\ (In("Warning: TF has forgotten about face id", log)
        \/ In("Error: no look-at target", log))
           => pub = << Msg("look", NeutralTarget, 0, 0) >>

\* C7's case: the gaze branch has failed on a visible face (tf raised an
\* exception other than tf.LookupException) and the neutral target went out
C7_Witness ==
    /\ log = << "Error: no gaze-at target" >>
    /\ pub = << Msg("gaze", NeutralTarget, 0, 0) >>
    /\ gaze_at = 0
    /\ In(1, visible_faces)

\* the first exception of the gaze branch is not tf.LookupException
GazeFailsOther(s, tf) ==
    \/ ~In(s.gaze_at, s.visible_faces)
    \/ tf.cur.exc = "Exception"
    \/ tf.cur.exc = "none" /\ tf.trg.exc = "Exception"

\* the exception of the look branch is not tf.LookupException
LookFailsOther(s, tf) ==
    \/ ~In(s.look_at, s.visible_faces)
    \/ tf.trg.exc = "Exception"

\* C8: a tick that fails in the gaze branch with any failure but the
\* stale-history one ("face not visible" included) leaves gaze_at = 0, one
\* that so fails in the look branch leaves look_at = 0, and both leave
\* visible_faces and background_face_targets as they were when the scheduling
\* step began.
C8_OtherFailureKeepsFaces ==
    \A faces \in Batches, now \in Nows :
        LET s0 == AddFaces(Self, faces)
        IN  /\ GazeRuns(s0, now) =>
                \A tf \in Tfs :
                    LET s2 == face_loc_cb(Self, faces, now, tf)
                    IN  GazeFailsOther(s0, tf)
                        => /\ s2.gaze_at = 0
                           /\ s2.visible_faces = s0.visible_faces
                           /\ s2.blackboard.background_face_targets =
                                  s0.blackboard.background_face_targets
            /\ LookRuns(s0, now) =>
                \A tf \in Tfs :
                    LET s2 == face_loc_cb(Self, faces, now, tf)
                    IN  LookFailsOther(s0, tf)
                        => /\ s2.look_at = 0
                           /\ s2.visible_faces = s0.visible_faces
                           /\ s2.blackboard.background_face_targets =
                                  s0.blackboard.background_face_targets

\* C8's case: the look branch has failed on a visible face with an exception
\* other than tf.LookupException, and the face is still registered
C8_Witness ==
    /\ log = << "Look at id", "Error: no look-at target" >>
    /\ look_at = 0
    /\ In(1, visible_faces)
    /\ In(1, blackboard.background_face_targets)

\* math.sqrt((C.x-G.x)^2 + (C.y-G.y)^2) / dz > m for a threshold m >= 0,
\* where dz = C.z - G.z, or 1 when that is 0
RatioExceeds(C, G, m) ==
    LET dz == IF C.z - G.z = 0 THEN 1 ELSE C.z - G.z
        d2 == (C.x - G.x) * (C.x - G.x) + (C.y - G.y) * (C.y - G.y)
    IN  dz > 0 /\ d2 > (m * dz) * (m * dz)

\* C9: for every current target C and candidate G, glance_or_look_at raises
\* nothing (no ZeroDivisionError when C.z = G.z) and publishes exactly one
\* message: G as it is on the look channel if sqrt(dx^2 + dy^2) / dz exceeds
\* max_glance_distance, and otherwise G on the gaze channel (G with the
\* face-study saccade added when a face-study flag is set, G as it is when
\* none is).
C9_GlanceOrLook ==
    ~probe.done =>
        LET C == probe.current_trg
            G == probe.gaze_trg
            s == glance_or_look_at(Self, C, G)
            anyflag == \/ blackboard.face_study_nose
                       \/ blackboard.face_study_mouth
                       \/ blackboard.face_study_left_ear
                       \/ blackboard.face_study_right_ear
        IN  /\ s.exc = "none"
            /\ Len(s.pub) = 1
            /\ IF RatioExceeds(C, G, blackboard.max_glance_distance)
               THEN s.pub[1] = Msg("look", G, 0, G.face)
               ELSE /\ s.pub[1] = Msg("gaze", StudyOffset(blackboard, G), 0,
                                      G.face)
                    /\ ~anyflag => s.pub[1] = Msg("gaze", G, 0, G.face)

\* C9's case: the call with C = (0,0,1), G = (0,5,1) and max_glance_distance
\* = 2 has published G on the look channel, with the depth 0 replaced by 1
C9_Witness ==
    /\ probe.done
    /\ probe.current_trg = [x |-> 0, y |-> 0, z |-> 1, face |-> 0]
    /\ probe.gaze_trg = [x |-> 0, y |-> 5, z |-> 1, face |-> 1]
    /\ blackboard.max_glance_distance = 2
    /\ probe.exc = "none"
    /\ pub = << Msg("look", probe.gaze_trg, 0, 1) >>

\* C10: add_face(id) twice in a row leaves the same visible_faces, the same
\* background_face_targets and the same new_face as add_face(id) once, and
\* the second call announces nothing: with the announcement of the first call
\* consumed (new_face and is_interruption reset by their reader), it changes
\* nothing at all.
C10_AddFaceIdempotent ==
    \A faceid \in FaceIds :
        LET s1  == add_face(Self, faceid)
            s2  == add_face(s1, faceid)
            s1c == [s1 EXCEPT !.blackboard.new_face = EMPTY,
                              !.blackboard.is_interruption = FALSE]
        IN  /\ s2.visible_faces = s1.visible_faces
            /\ s2.blackboard.background_face_targets =
                   s1.blackboard.background_face_targets
            /\ s2.blackboard.new_face = s1.blackboard.new_face
            /\ add_face(s1c, faceid) = s1c
            /\ Cardinality({i \in 1 .. Len(s2.visible_faces) :
                                s2.visible_faces[i] = faceid}) = 1

\* C10's case: face 1 has been added and announced, and adding it again
\* changes nothing
C10_Witness ==
    /\ In(1, visible_faces)
    /\ blackboard.new_face = 1
    /\ add_face(add_face(Self, 1), 1).visible_faces = visible_faces

\* C11: for every id, remove_face(id) run after add_face(id) leaves id out of
\* visible_faces and out of background_face_targets, sets lost_face = id and,
\* if new_face was id, leaves new_face reset to "".
C11_RemoveAfterAdd ==
    \A faceid \in FaceIds :
        LET s1 == add_face(Self, faceid)
            s2 == remove_face(s1, faceid)
        IN  /\ In(faceid, s1.visible_faces)
            /\ ~In(faceid, s2.visible_faces)
            /\ ~In(faceid, s2.blackboard.background_face_targets)
            /\ s2.blackboard.lost_face = faceid
            /\ s2.blackboard.is_interruption
            /\ s1.blackboard.new_face = faceid
                   => s2.blackboard.new_face = EMPTY
            /\ s1.blackboard.new_face # faceid
                   => s2.blackboard.new_face = s1.blackboard.new_face

\* C11's case: face 1 was added, announced as new_face, and then removed
C11_Witness ==
    /\ blackboard.lost_face = 1
    /\ blackboard.new_face = EMPTY
    /\ blackboard.is_interruption
    /\ ~In(1, visible_faces)
    /\ ~In(1, blackboard.background_face_targets)

\* what can happen between two ticks without a call of the public API: nothing,
\* or a face event of pi_vision
BetweenTicks(s) ==
    {s} \cup { face_event_cb(s, e, i) :
                   e \in {"new_face", "lost_face"}, i \in SeenIds }

\* C12: with no glance active and no call of look_at_face or gaze_at_face by
\* a caller between them, two ticks that both pass the rate limiter
\* (now - last_lookat > LOOKAT_INTERVAL) are more than LOOKAT_INTERVAL apart.
C12_RateLimited ==
    \A faces1 \in Batches, now1 \in Nows :
        LET s0 == AddFaces(Self, faces1)
        IN  GateOpen(s0, now1) =>
                \A tf1 \in TfsAsked(s0, now1) :
                    LET s1 == NextCall(face_loc_cb(Self, faces1, now1, tf1))
                    IN  \A s2 \in BetweenTicks(s1), faces2 \in Batches,
                           now2 \in now1 .. (StartTime + MaxClock) :
                            GateOpen(AddFaces(s2, faces2), now2)
                            => now2 - now1 > LOOKAT_INTERVAL

\* the tick that left s hit a failure
TickFails(s) == \E i \in 1 .. Len(s.log) : s.log[i] \in Diagnostics

\* C13: a glance is time-bounded.  With glance_at > 0, the deadline is
\* (first_glance, or the time of this tick if it is the first one after
\* glance_at_face / study_face) + glance_howlong.  A tick before the deadline
\* that resolves its targets keeps the glance and records first_glance; the
\* first tick at or after the deadline sets glance_at = 0 and first_glance =
\* -1, publishes and prints nothing and leaves look_at, gaze_at and
\* last_lookat alone (normal scheduling does not run in it).  With glance_at
\* = 0, as that tick leaves it, the next tick is a tick of normal scheduling:
\* it passes the rate limiter exactly when now - last_lookat >
\* LOOKAT_INTERVAL, and then records last_lookat or recovers from a failure.
C13_GlanceBounded ==
    \A faces \in Batches, now \in Nows :
        LET s0 == AddFaces(Self, faces)
        IN  \A tf \in TfsAsked(s0, now) :
                LET s2 == face_loc_cb(Self, faces, now, tf)
                IN  IF 0 < glance_at
                    THEN LET fg == IF first_glance < 0 THEN now
                                   ELSE first_glance
                         IN  IF now < fg + glance_howlong
                             THEN \/ /\ s2.glance_at = glance_at
                                     /\ s2.first_glance = fg
                                     /\ Len(s2.pub) = 1
                                  \/ /\ s2.log
                                          = << "Error: no face to glance at!" >>
                                     /\ s2.glance_at = 0
                             ELSE /\ s2.glance_at = 0
                                  /\ s2.first_glance = -1
                                  /\ s2.pub = << >>
                                  /\ s2.log = << >>
                                  /\ s2.look_at = look_at
                                  /\ s2.gaze_at = gaze_at
                                  /\ s2.last_lookat = last_lookat
                    ELSE /\ s2.glance_at = glance_at
                         /\ s2.first_glance = first_glance
                         /\ IF now - last_lookat > LOOKAT_INTERVAL
                            THEN s2.last_lookat = now \/ TickFails(s2)
                            ELSE s2 = s0

\* C13's case: a glance at face 1 for 0.1 s has had its first tick (which
\* published the glance target), and the tick that comes 0.1 s later ends it
C13_Witness ==
    /\ glance_at = 1
    /\ glance_howlong = 1
    /\ first_glance = StartTime
    /\ Len(pub) = 1 /\ pub[1].face = 1
    /\ StartTime + 1 \in Nows
    /\ face_loc_cb(Self, << >>, StartTime + 1, [cur |-> NoAnswer,
                                               trg |-> NoAnswer]).glance_at = 0

\* a glance is in flight: glance_at > 0, its first tick has run and its
\* deadline has not elapsed
GlanceInFlight ==
    /\ 0 < glance_at
    /\ 0 <= first_glance
    /\ clock - first_glance < glance_howlong

\* C14, as claimed: while a glance is in flight, no call of look_at_face,
\* gaze_at_face, glance_at_face or study_face, with any arguments, leaves the
\* glance inactive (glance_at <= 0).
C14_NoCancel ==
    GlanceInFlight =>
        \A faceid \in FaceIds, howlong \in 0 .. MaxHowlong :
            /\ 0 < look_at_face(Self, faceid).glance_at
            /\ 0 < gaze_at_face(Self, faceid).glance_at
            /\ 0 < glance_at_face(Self, faceid, howlong).glance_at
            /\ 0 < study_face(Self, faceid, howlong).glance_at

\* C14, amended: while a glance is in flight, look_at_face, gaze_at_face and
\* the face events leave glance_at, first_glance and glance_howlong alone;
\* glance_at_face(id, howlong) and study_face(id, howlong) replace the
\* glance (glance_at = id, glance_howlong = howlong, first_glance = -1), so
\* they cancel it exactly when id = 0; and a tick ends it only at or after
\* the deadline or on a failure of the glance tick's resolution.
C14_CancelOnlyByGlanceZero ==
    GlanceInFlight =>
        /\ \A faceid \in FaceIds :
               \A s2 \in {look_at_face(Self, faceid),
                          gaze_at_face(Self, faceid),
                          face_event_cb(Self, "new_face", faceid),
                          face_event_cb(Self, "lost_face", faceid)} :
                   /\ s2.glance_at = glance_at
                   /\ s2.first_glance = first_glance
                   /\ s2.glance_howlong = glance_howlong
        /\ \A faceid \in FaceIds, howlong \in 0 .. MaxHowlong :
               \A s2 \in {glance_at_face(Self, faceid, howlong),
                          study_face(Self, faceid, howlong)} :
                   /\ s2.glance_at = faceid
                   /\ s2.glance_howlong = howlong
                   /\ s2.first_glance = -1
                   /\ (0 < s2.glance_at) <=> (faceid # 0)
        /\ \A faces \in Batches, now \in Nows :
               \A tf \in TfsAsked(AddFaces(Self, faces), now) :
                   LET s2 == face_loc_cb(Self, faces, now, tf)
                   IN  \/ s2.glance_at = glance_at
                       \/ /\ s2.glance_at = 0
                          /\ \/ now >= first_glance + glance_howlong
                             \/ s2.log = << "Error: no face to glance at!" >>

\* C14's case: a glance at face 1 is in flight (its first tick has published
\* the glance target) and a caller can call glance_at_face(0, howlong)
C14_Witness ==
    /\ GlanceInFlight
    /\ glance_at = 1
    /\ Len(pub) = 1 /\ pub[1].face = 1
    /\ glance_at_face(Self, 0, 1).glance_at = 0
    /\ look_at_face(Self, 0).glance_at = 1

\* C15: after any sequence of new-face events, lost-face events and batches
\* of face locations, with any face ids, 0 is neither in visible_faces nor in
\* background_face_targets.
C15_ZeroNeverRegistered ==
    /\ ~In(0, visible_faces)
    /\ ~In(0, blackboard.background_face_targets)

\* C16: a tick publishes at most one message over the look and gaze channels
\* together, in every reachable state (glance active, look-at pending,
\* gaze-only tracking) and whatever tf answers (every failure path included).
\* pub is what the handler that ran last has published, and the outcome of
\* every tick from every reachable state is a reachable state.
C16_OneMessagePerTick ==
    /\ Len(pub) <= 1
    /\ \A i \in 1 .. Len(pub) : pub[i].chan \in {"look", "gaze"}

\* C16's case: a tick of gaze-only tracking (the head turn done before) has
\* published the target of face 1 on the gaze channel, and nothing else
C16_Witness ==
    /\ look_at = -1
    /\ gaze_at = 1
    /\ ~(0 < glance_at)
    /\ log = << >>
    /\ Len(pub) = 1 /\ pub[1].chan = "gaze" /\ pub[1].face = 1
    /\ last_lookat = clock

\* the four face-study flags of blackboard bb, in the order of priority
StudyFlags(bb) ==
    << bb.face_study_nose, bb.face_study_mouth,
       bb.face_study_left_ear, bb.face_study_right_ear >>

\* C17: when glance_or_look_at publishes on the gaze channel, the message is
\* G displaced by the offset of exactly one flag, the first set one in the
\* order nose (z), mouth (z), left ear (y), right ear (y), or G itself if no
\* flag is set, and afterwards the four flags are false; when it publishes
\* on the look channel, the message is G itself and the four flags are as
\* they were.
C17_StudyFlagsOneShot ==
    ~probe.done =>
        LET G  == probe.gaze_trg
            s  == glance_or_look_at(Self, probe.current_trg, G)
            f  == StudyFlags(blackboard)
            dz == IF f[1] THEN blackboard.face_study_z_pitch_nose
                  ELSE IF f[2] THEN blackboard.face_study_z_pitch_mouth
                  ELSE 0
            dy == IF f[1] \/ f[2] THEN 0
                  ELSE IF f[3] THEN blackboard.face_study_y_pitch_left_ear
                  ELSE IF f[4] THEN blackboard.face_study_y_pitch_right_ear
                  ELSE 0
        IN  /\ Len(s.pub) = 1
            /\ s.pub[1].chan = "gaze" =>
                   /\ s.pub[1].x = G.x
                   /\ s.pub[1].y = G.y + dy
                   /\ s.pub[1].z = G.z + dz
                   /\ StudyFlags(s.blackboard) = <<FALSE, FALSE, FALSE, FALSE>>
            /\ s.pub[1].chan = "look" =>
                   /\ s.pub[1] = Msg("look", G, 0, G.face)
                   /\ StudyFlags(s.blackboard) = f
            /\ [s.blackboard EXCEPT !.face_study_nose = FALSE,
                                    !.face_study_mouth = FALSE,
                                    !.face_study_left_ear = FALSE,
                                    !.face_study_right_ear = FALSE]
               = [blackboard EXCEPT !.face_study_nose = FALSE,
                                    !.face_study_mouth = FALSE,
                                    !.face_study_left_ear = FALSE,
                                    !.face_study_right_ear = FALSE]

\* C17's case: the decision has published G = (0, 0, 0) on the gaze channel
\* with the offset of the mouth alone, and the four flags are false
C17_Witness ==
    /\ probe.done
    /\ probe.gaze_trg = [x |-> 0, y |-> 0, z |-> 0, face |-> 1]
    /\ Len(pub) = 1
    /\ pub[1] = [chan |-> "gaze", x |-> 0, y |-> 0,
                 z |-> blackboard.face_study_z_pitch_mouth, face |-> 1]
    /\ StudyFlags(blackboard) = <<FALSE, FALSE, FALSE, FALSE>>

\* the batches of up to two face locations, on either side of the threshold
WholeBatches ==
    LET Faces == [id : SeenIds, x : {X_THRESHOLD - 1, X_THRESHOLD}]
    IN  { << >> } \cup { <<f>> : f \in Faces }
                  \cup { <<f, g>> : f \in Faces, g \in Faces }

\* the ids of a batch that pass the sanity check on x
Accepted(faces) ==
    { faces[i].id : i \in { j \in 1 .. Len(faces) :
                                faces[j].x >= X_THRESHOLD } }

\* the members of a list
Members(lst) == { lst[i] : i \in 1 .. Len(lst) }

\* C18: face_loc_cb registers every face of the batch whose x >= 0.05, and
\* none whose x < 0.05, before the tick; the registration removes no face
\* (visible_faces as it was is a prefix of what the tick sees); and the tick
\* runs exactly once, after the whole batch, also when the batch is empty:
\* the handler does what the tick does on the registered state (shown for a
\* tick at the present instant in which tf resolves every face), so that a
\* pending look-at on a face the batch has just registered is served.
C18_BatchThenTick ==
    \A faces \in WholeBatches :
        LET s0 == AddFaces(Self, faces)
        IN  /\ Members(s0.visible_faces)
                   = Members(visible_faces) \cup Accepted(faces)
            /\ SubSeq(s0.visible_faces, 1, Len(visible_faces)) = visible_faces
            /\ Len(s0.visible_faces) = Cardinality(Members(s0.visible_faces))
            /\ LET ok == [exc |-> "none", x |-> 1, y |-> 0, z |-> 0]
                   tf == [cur |-> ok, trg |-> ok]
                   s2 == face_loc_cb(Self, faces, clock, tf)
               IN  /\ s2 = do_look_at_actions(s0, clock, tf)
                   /\ s2.visible_faces = s0.visible_faces
                   /\ (0 < look_at /\ ~(0 < glance_at)
                          /\ In(look_at, s0.visible_faces))
                          => s2.pub = << Msg("look", ok,
                                             blackboard.z_pitch_eyes,
                                             look_at) >>

\* C18's case: face 1 is the gaze target but not visible, and a batch that
\* reports it (after an entry that fails the sanity check) makes the tick of
\* the same handler publish its target
C18_Witness ==
    /\ gaze_at = 1
    /\ look_at <= 0
    /\ ~In(1, visible_faces)
    /\ GateOpen(Self, clock)
    /\ LET ok == [exc |-> "none", x |-> 1, y |-> 0, z |-> 0]
           s2 == face_loc_cb(Self, << [id |-> 1, x |-> X_THRESHOLD - 1],
                                      [id |-> 1, x |-> X_THRESHOLD] >>,
                             clock, [cur |-> ok, trg |-> ok])
       IN  /\ In(1, s2.visible_faces)
           /\ Len(s2.pub) = 1 /\ s2.pub[1].face = 1

\* C19: visible_faces and background_face_targets, both empty at the start
\* and changed by this module alone, hold the same ids after any sequence of
\* API calls, face events and ticks (stale-history evictions included), each
\* without duplicates.
C19_RegistryAgreement ==
    /\ Members(visible_faces) = Members(blackboard.background_face_targets)
    /\ Len(visible_faces) = Cardinality(Members(visible_faces))
    /\ Len(blackboard.background_face_targets)
           = Cardinality(Members(blackboard.background_face_targets))

\* C19's case: a tick has evicted face 1 on a stale-history failure: it is
\* gone from both lists together
C19_Witness ==
    /\ In("Warning: TF has forgotten about face id", log)
    /\ blackboard.lost_face = 1
    /\ visible_faces = << >>
    /\ blackboard.background_face_targets = << >>
    /\ blackboard.is_interruption

\* C20: a look-at accepted while a glance is active is deferred, not lost.
\* look_at_face(id) on a visible face during a glance leaves look_at = id
\* with the rate limiter reset; while a look-at is pending the rate limiter
\* stays reset (last_lookat = 0); every tick of the glance (the one that
\* clears it included) leaves look_at, gaze_at and last_lookat alone; and
\* once the glance is cleared, with the look-at still pending, the next tick
\* passes the rate limiter at whatever instant it comes and, if face id is
\* visible and resolves, publishes exactly its target on the look channel.
C20_LookDeferredByGlance ==
    /\ 0 < glance_at =>
           \A faceid \in FaceIds \ {0} :
               In(faceid, visible_faces) =>
                   LET s1 == look_at_face(Self, faceid)
                   IN  /\ s1.look_at = faceid
                       /\ s1.last_lookat = 0
                       /\ s1.glance_at = glance_at
    /\ 0 < look_at => last_lookat = 0
    /\ 0 < look_at =>
           \A faces \in Batches, now \in Nows :
               LET s0 == AddFaces(Self, faces)
               IN  \A tf \in TfsAsked(s0, now) :
                       LET s2 == face_loc_cb(Self, faces, now, tf)
                       IN  IF 0 < glance_at
                           THEN /\ s2.look_at = look_at
                                /\ s2.gaze_at = gaze_at
                                /\ s2.last_lookat = last_lookat
                           ELSE /\ LookRuns(s0, now)
                                /\ (In(look_at, s0.visible_faces)
                                    /\ tf.trg.exc = "none")
                                   => s2.pub = << Msg("look", tf.trg,
                                                      blackboard.z_pitch_eyes,
                                                      look_at) >>

\* C20's case: a tick of a glance has published the glance target while a
\* look-at on the visible face 1 was pending; the tick at the deadline
\* clears the glance and the tick after it turns the head to face 1
C20_Witness ==
    /\ GlanceInFlight
    /\ Len(pub) = 1 /\ pub[1].face = glance_at
    /\ look_at = 1
    /\ In(1, visible_faces)
    /\ first_glance + glance_howlong \in Nows
    /\ LET none == [cur |-> NoAnswer, trg |-> NoAnswer]
           ok   == [exc |-> "none", x |-> 1, y |-> 0, z |-> 0]
           t    == first_glance + glance_howlong
           s2   == NextCall(face_loc_cb(Self, << >>, t, none))
           s3   == face_loc_cb(s2, << >>, t, [cur |-> NoAnswer, trg |-> ok])
       IN  /\ s2.glance_at = 0
           /\ s2.look_at = 1
           /\ s3.pub = << Msg("look", ok, ZPitchEyes, 1) >>

====
